---- MODULE Spec2Model ----
(***************************************************************************)
(* Addresses, dots and buffers of the editor core.                         *)
(*                                                                         *)
(* Two drafts live in the repository: src/src/text.rs keeps the body in    *)
(* an Arc<Mutex<Rope>> shared by the dots, src/src/main.rs keeps a Rope    *)
(* and a Vec<Dot> inside the Buffer.  Definitions without a prefix model   *)
(* text.rs, definitions prefixed Main model main.rs.                       *)
(*                                                                         *)
(* A body is a sequence of one-character strings.  usize arithmetic is     *)
(* checked in a debug build (an overflow panics) and wraps in a release    *)
(* build; the variable build records which one runs.                       *)
(***************************************************************************)
EXTENDS Integers, Sequences, FiniteSets, TLC

\* ---------------------------------------------------------------- bounds
MaxLen == 2     \* longest body
MaxIdx == 2     \* largest index, width or count a caller passes
MaxLine == 1    \* largest line number a caller passes
MaxCol == 1     \* largest column a caller passes
MaxRepl == 1    \* longest replacement text given to set
MaxTestLen == 3 \* longest body the tests are run on
MaxPos == 4     \* largest ordinary index of a dot that is followed
MaxWrap == 2    \* how far below the modulus a wrapped index is followed
MaxCalls == 1   \* calls of get or set one thread makes

\* usize is modelled 16 bits wide (the narrowest pointer width Rust has);
\* every index of the model is far below it, so the wrap-around cases are
\* those of any wider usize.
UsizeModulus == 2^16

NL == "\n"
Chars == {"a", NL}

RECURSIVE SeqsUpTo(_)
SeqsUpTo(n) ==
    IF n = 0 THEN {<<>>}
    ELSE LET S == SeqsUpTo(n - 1)
         IN  S \cup {Append(s, c) : s \in {t \in S : Len(t) = n - 1}, c \in Chars}

Bodies == SeqsUpTo(MaxLen)
Replacements == SeqsUpTo(MaxRepl)
TestBodies == SeqsUpTo(MaxTestLen)

\* ------------------------------------------------------------- addresses
Index(i) == [tag |-> "Index", x |-> i, y |-> 0]
Coordinates(l, c) == [tag |-> "Coordinates", x |-> l, y |-> c]
LineStart(l) == [tag |-> "LineStart", x |-> l, y |-> 0]
LineEnd(l) == [tag |-> "LineEnd", x |-> l, y |-> 0]
BufferStart == [tag |-> "BufferStart", x |-> 0, y |-> 0]
BufferEnd == [tag |-> "BufferEnd", x |-> 0, y |-> 0]

\* The addresses a caller passes to a dot's constructors.
DotInputs ==
    {Index(i) : i \in 0..MaxIdx}
    \cup {BufferStart, BufferEnd}
    \cup {LineStart(l) : l \in 0..MaxLine}
    \cup {LineEnd(l) : l \in 0..MaxLine}

\* The addresses a caller resolves.
AddrInputs == DotInputs \cup {Coordinates(l, c) : l \in 0..MaxLine, c \in 0..MaxCol}

\* --------------------------------------------------------------- results
\* A call returns Ok(v) or Err, panics, or never returns (it waits for a
\* lock its own thread holds).
Ok(v) == [k |-> "Ok", v |-> v]
Err == [k |-> "Err", v |-> 0]
Panic == [k |-> "Panic", v |-> 0]
Deadlock == [k |-> "Deadlock", v |-> 0]

\* The result of as_coordinates: Ok((line, column)), or a failure of kind k.
Coords(line, column) == [k |-> "Ok", v |-> line, col |-> column]
NoCoords(k) == [k |-> k, v |-> 0, col |-> 0]

\* Ok((line, column?)) where the column is itself the result of a computation.
CoordsOf(line, column) ==
    IF column.k # "Ok" THEN NoCoords(column.k) ELSE Coords(line, column.v)

VARIABLES
    draft,      \* "text" (text.rs) or "main" (main.rs)
    build,      \* "debug" or "release"
    status,     \* "running", "panicked" or "deadlocked"
    body,       \* the Rope's characters
    dot,        \* the dot: [from |-> Addr, to |-> Addr]
    last,       \* the last call: its name, argument, result and the state before
    roundtrip,  \* the dot before a successful move_left(n), when the last call was
                \* the successful move_right(n) that followed it
    pc,         \* the next statement of the test being run ("none": no test)
    width,      \* the width the test anchors its dot with
    lock,       \* the body's Mutex: "free", the thread holding it, or "poisoned"
    thread,     \* each thread's call of Buffer::get or Buffer::set in progress
    other       \* a second dot over the same Buffer

vars ==
    <<draft, build, status, body, dot, last, roundtrip, pc, width, lock, thread,
      other>>

\* ----------------------------------------------------- usize arithmetic
\* a - b on usize: a panic in a debug build, a wrap in a release build.
USub(a, b) ==
    IF a >= b THEN Ok(a - b)
    ELSE IF build = "debug" THEN Panic
    ELSE Ok(a - b + UsizeModulus)

\* a + b on usize.
UAdd(a, b) ==
    IF a + b < UsizeModulus THEN Ok(a + b)
    ELSE IF build = "debug" THEN Panic
    ELSE Ok(a + b - UsizeModulus)

\* ------------------------------------------------------- the Rope (ropey)
len_chars(b) == Len(b)

\* Line breaks among the first i characters of b.
RECURSIVE Breaks(_, _)
Breaks(b, i) ==
    IF i = 0 THEN 0
    ELSE Breaks(b, i - 1) + (IF b[i] = NL THEN 1 ELSE 0)

len_lines(b) == Breaks(b, Len(b)) + 1

\* The index of the first character of line l, for l < len_lines(b).
LineStartIdx(b, l) ==
    IF l = 0 THEN 0
    ELSE CHOOSE i \in 1..Len(b) : b[i] = NL /\ Breaks(b, i) = l

\* Rope::try_line_to_char: the line one past the last is the end of the text.
try_line_to_char(b, l) ==
    IF l > len_lines(b) THEN Err
    ELSE IF l = len_lines(b) THEN Ok(len_chars(b))
    ELSE Ok(LineStartIdx(b, l))

\* A try_char_to_line that finds every index on line 0.
try_char_to_line_FirstLine(b, i) ==
    IF i > len_chars(b) THEN Err ELSE Ok(0)

\* Rope::try_char_to_line: the index one past the last is on the last line.
try_char_to_line(b, i) ==
    IF i > len_chars(b) THEN Err ELSE Ok(Breaks(b, i))

\* Rope::line(l).len_chars(), line break included; panics for l >= len_lines.
line_len_chars(b, l) ==
    IF l >= len_lines(b) THEN Panic
    ELSE LET s == LineStartIdx(b, l)
             e == IF l + 1 = len_lines(b) THEN len_chars(b) ELSE LineStartIdx(b, l + 1)
         IN  Ok(e - s)

\* Rope::slice(from..to), Rope::remove(from..to), Rope::insert(from, s):
\* each panics on a range that is inverted or reaches past the end.
RangeOk(b, from, to) == from <= to /\ to <= len_chars(b)

Slice(b, from, to) == SubSeq(b, from + 1, to)

Splice(b, from, to, s) == SubSeq(b, 1, from) \o s \o SubSeq(b, to + 1, Len(b))

\* ------------------------------------------------------- text.rs: Addr
\* Addr::as_index.  held: the calling thread already holds the body lock
\* (Mutex is not reentrant: a variant that locks then never returns).
Addr_BufferEnd(b) == USub(len_chars(b), 1)

\* The variants whose resolution locks the body.
Addr_locks(a) == a.tag \notin {"Index", "BufferStart"}

Addr_as_index(a, b, held) ==
    IF held /\ Addr_locks(a) THEN Deadlock
    ELSE CASE a.tag = "Index" -> Ok(a.x)
           [] a.tag = "Coordinates" ->
                LET idx == try_line_to_char(b, a.x)
                IN  IF idx.k # "Ok" THEN idx ELSE UAdd(idx.v, a.y)
           [] a.tag = "LineStart" -> try_line_to_char(b, a.x)
           [] a.tag = "LineEnd" ->
                LET idx == try_line_to_char(b, a.x)
                    n == line_len_chars(b, a.x)
                IN  IF idx.k # "Ok" THEN idx
                    ELSE IF n.k # "Ok" THEN n
                    ELSE UAdd(idx.v, n.v)
           [] a.tag = "BufferStart" -> Ok(0)
           [] a.tag = "BufferEnd" -> Addr_BufferEnd(b)

\* Addr::as_coordinates, called with no lock held.
Addr_as_coordinates(a, b) ==
    CASE a.tag = "Index" ->
            LET line == try_char_to_line(b, a.x)
            IN  IF line.k # "Ok" THEN NoCoords(line.k)
                ELSE LET start == try_line_to_char(b, line.v)
                     IN  IF start.k # "Ok" THEN NoCoords(start.k)
                         ELSE CoordsOf(line.v, USub(a.x, start.v))
      [] a.tag = "Coordinates" -> Coords(a.x, a.y)
      [] a.tag = "LineStart" -> Coords(a.x, 0)
      [] a.tag = "LineEnd" ->
            LET n == line_len_chars(b, a.x)
            IN  IF n.k # "Ok" THEN NoCoords(n.k)
                ELSE CoordsOf(a.x, USub(n.v, 1))
      [] a.tag = "BufferStart" -> Coords(0, 0)
      [] a.tag = "BufferEnd" ->
            LET end == USub(len_chars(b), 1)
            IN  IF end.k # "Ok" THEN NoCoords(end.k)
                ELSE LET line == try_char_to_line(b, end.v)
                     IN  IF line.k # "Ok" THEN NoCoords(line.k)
                         ELSE LET start == try_line_to_char(b, line.v)
                              IN  IF start.k # "Ok" THEN NoCoords(start.k)
                                  ELSE CoordsOf(line.v, USub(end.v, start.v))

\* The result of a call on an address: [k |-> kind, a |-> the address after].
AddrRes(k, a) == [k |-> k, a |-> a]

\* Addr::move_left: no lock is held around the two as_index calls.
Addr_move_left(a, b, n) ==
    LET i == Addr_as_index(a, b, FALSE)
    IN  IF i.k # "Ok" THEN AddrRes(i.k, a)
        ELSE IF i.v < n THEN AddrRes("Err", a)
        ELSE AddrRes("Ok", Index(i.v - n))

\* Addr::move_right with the shift of main.rs's move_right: n is subtracted.
Addr_move_right_Sub(a, b, n) ==
    LET i == Addr_as_index(a, b, TRUE)
        s == USub(i.v, n)
    IN  IF i.k # "Ok" THEN AddrRes(i.k, a)
        ELSE IF s.k # "Ok" THEN AddrRes(s.k, a)
        ELSE IF s.v > len_chars(b) THEN AddrRes("Err", a)
        ELSE AddrRes("Ok", Index(s.v))

\* Addr::move_right: the lock is taken first and as_index is called under it.
Addr_move_right(a, b, n) ==
    LET i == Addr_as_index(a, b, TRUE)
        s == UAdd(i.v, n)
    IN  IF i.k # "Ok" THEN AddrRes(i.k, a)
        ELSE IF s.k # "Ok" THEN AddrRes(s.k, a)
        ELSE IF s.v > len_chars(b) THEN AddrRes("Err", a)
        ELSE AddrRes("Ok", Index(s.v))

\* -------------------------------------------------------- text.rs: Dot
Dot(from, to) == [from |-> from, to |-> to]

\* The result of a call on a dot: [k |-> kind, dot |-> the dot after, out |-> text].
DotRes(k, d) == [k |-> k, dot |-> d, out |-> <<>>]

Dot_new == Dot(BufferStart, BufferEnd)

Dot_left_right(d, b, left, right) ==
    LET l == Addr_as_index(left, b, FALSE)
        r == Addr_as_index(right, b, FALSE)
        d1 == [d EXCEPT !.from = Index(l.v)]
    IN  IF l.k # "Ok" THEN DotRes(l.k, d)
        ELSE IF r.k # "Ok" THEN DotRes(r.k, d1)
        ELSE DotRes("Ok", [d1 EXCEPT !.to = Index(r.v)])

Dot_anchor_left(d, b, anchor, to) ==
    LET a == Addr_as_index(anchor, b, FALSE)
        w == Addr_as_index(to, b, FALSE)
        s == UAdd(a.v, w.v)
        d1 == [d EXCEPT !.from = Index(a.v)]
    IN  IF a.k # "Ok" THEN DotRes(a.k, d)
        ELSE IF w.k # "Ok" THEN DotRes(w.k, d1)
        ELSE IF s.k # "Ok" THEN DotRes(s.k, d1)
        ELSE DotRes("Ok", [d1 EXCEPT !.to = Index(s.v)])

Dot_anchor_right(d, b, from, anchor) ==
    LET a == Addr_as_index(anchor, b, FALSE)
        w == Addr_as_index(from, b, FALSE)
        s == USub(a.v, w.v)
    IN  IF a.k # "Ok" THEN DotRes(a.k, d)
        ELSE IF w.k # "Ok" THEN DotRes(w.k, d)
        ELSE IF s.k # "Ok" THEN DotRes(s.k, d)
        ELSE DotRes("Ok", Dot(Index(s.v), Index(a.v)))

Dot_move_left(d, b, n) ==
    LET f == Addr_move_left(d.from, b, n)
        d1 == [d EXCEPT !.from = f.a]
        t == Addr_move_left(d.to, b, n)
    IN  IF f.k # "Ok" THEN DotRes(f.k, d)
        ELSE IF t.k # "Ok" THEN DotRes(t.k, d1)
        ELSE DotRes("Ok", [d1 EXCEPT !.to = t.a])

Dot_move_right(d, b, n) ==
    LET f == Addr_move_right(d.from, b, n)
        d1 == [d EXCEPT !.from = f.a]
        t == Addr_move_right(d.to, b, n)
    IN  IF f.k # "Ok" THEN DotRes(f.k, d)
        ELSE IF t.k # "Ok" THEN DotRes(t.k, d1)
        ELSE DotRes("Ok", [d1 EXCEPT !.to = t.a])

Dot_extend_left(d, b, n) ==
    LET t == Addr_move_left(d.to, b, n)
    IN  IF t.k # "Ok" THEN DotRes(t.k, d)
        ELSE DotRes("Ok", [d EXCEPT !.to = t.a])

Dot_extend_right(d, b, n) ==
    LET f == Addr_move_right(d.from, b, n)
    IN  IF f.k # "Ok" THEN DotRes(f.k, d)
        ELSE DotRes("Ok", [d EXCEPT !.from = f.a])

\* trim_left and trim_right without their swap, as extend_left and
\* extend_right are.
SwapIf_Never(c, d) == d

\* The swap that ends trim_left and trim_right.
SwapIf(c, d) == IF c THEN Dot(d.to, d.from) ELSE d

Dot_trim_left(d, b, n) ==
    LET t == Addr_move_right(d.to, b, n)
        d1 == [d EXCEPT !.to = t.a]
        ti == Addr_as_index(d1.to, b, FALSE)
        fi == Addr_as_index(d1.from, b, FALSE)
    IN  IF t.k # "Ok" THEN DotRes(t.k, d)
        ELSE IF ti.k # "Ok" THEN DotRes(ti.k, d1)
        ELSE IF fi.k # "Ok" THEN DotRes(fi.k, d1)
        ELSE DotRes("Ok", SwapIf(ti.v < fi.v, d1))

Dot_trim_right(d, b, n) ==
    LET f == Addr_move_left(d.from, b, n)
        d1 == [d EXCEPT !.from = f.a]
        fi == Addr_as_index(d1.from, b, FALSE)
        ti == Addr_as_index(d1.to, b, FALSE)
    IN  IF f.k # "Ok" THEN DotRes(f.k, d)
        ELSE IF fi.k # "Ok" THEN DotRes(fi.k, d1)
        ELSE IF ti.k # "Ok" THEN DotRes(ti.k, d1)
        ELSE DotRes("Ok", SwapIf(fi.v > ti.v, d1))

\* ----------------------------------------------------- text.rs: Buffer
\* The result of a call on the buffer: [k, body |-> the body after, out |-> text].
BufRes(k, b, out) == [k |-> k, body |-> b, out |-> out]

Buffer_get(d, b) ==
    LET from == Addr_as_index(d.from, b, FALSE)
        to == Addr_as_index(d.to, b, FALSE)
    IN  IF from.k # "Ok" THEN BufRes(from.k, b, <<>>)
        ELSE IF to.k # "Ok" THEN BufRes(to.k, b, <<>>)
        ELSE IF ~RangeOk(b, from.v, to.v) THEN BufRes("Panic", b, <<>>)
        ELSE BufRes("Ok", b, Slice(b, from.v, to.v))

Buffer_set(d, b, s) ==
    LET from == Addr_as_index(d.from, b, FALSE)
        to == Addr_as_index(d.to, b, FALSE)
    IN  IF from.k # "Ok" THEN BufRes(from.k, b, <<>>)
        ELSE IF to.k # "Ok" THEN BufRes(to.k, b, <<>>)
        ELSE IF ~RangeOk(b, from.v, to.v) THEN BufRes("Panic", b, <<>>)
        ELSE BufRes("Ok", Splice(b, from.v, to.v, s), <<>>)


\* ------------------------------------------------------- main.rs: Addr
MainAddr_BufferEnd(b) == USub(len_chars(b), 1)

MainAddr_as_index(a, b) ==
    CASE a.tag = "Index" -> Ok(a.x)
      [] a.tag = "Coordinates" ->
            LET idx == try_line_to_char(b, a.x)
            IN  IF idx.k # "Ok" THEN idx ELSE UAdd(idx.v, a.y)
      [] a.tag = "LineStart" -> try_line_to_char(b, a.x)
      [] a.tag = "LineEnd" ->
            LET idx == try_line_to_char(b, a.x)
                n == line_len_chars(b, a.x)
            IN  IF idx.k # "Ok" THEN idx
                ELSE IF n.k # "Ok" THEN n
                ELSE UAdd(idx.v, n.v)
      [] a.tag = "BufferStart" -> Ok(0)
      [] a.tag = "BufferEnd" -> MainAddr_BufferEnd(b)

\* Addr::as_coordinates of main.rs.
MainAddr_as_coordinates(a, b) ==
    CASE a.tag = "Index" ->
            LET line == try_char_to_line(b, a.x)
            IN  IF line.k # "Ok" THEN NoCoords(line.k)
                ELSE LET start == try_line_to_char(b, line.v)
                     IN  IF start.k # "Ok" THEN NoCoords(start.k)
                         ELSE CoordsOf(line.v, USub(a.x, start.v))
      [] a.tag = "Coordinates" -> Coords(a.x, a.y)
      [] a.tag = "LineStart" -> Coords(a.x, 0)
      [] a.tag = "LineEnd" ->
            LET n == line_len_chars(b, a.x)
            IN  IF n.k # "Ok" THEN NoCoords(n.k)
                ELSE CoordsOf(a.x, USub(n.v, 1))
      [] a.tag = "BufferStart" -> Coords(0, 0)
      [] a.tag = "BufferEnd" ->
            LET end == USub(len_chars(b), 1)
            IN  IF end.k # "Ok" THEN NoCoords(end.k)
                ELSE LET line == try_char_to_line(b, end.v)
                     IN  IF line.k # "Ok" THEN NoCoords(line.k)
                         ELSE LET start == try_line_to_char(b, line.v)
                              IN  IF start.k # "Ok" THEN NoCoords(start.k)
                                  ELSE CoordsOf(line.v, USub(end.v, start.v))

\* Addr::move_left of main.rs adds n.
MainAddr_move_left(a, b, n) ==
    LET i == MainAddr_as_index(a, b)
        s == UAdd(i.v, n)
    IN  IF i.k # "Ok" THEN AddrRes(i.k, a)
        ELSE IF s.k # "Ok" THEN AddrRes(s.k, a)
        ELSE AddrRes("Ok", Index(s.v))

\* Addr::move_right of main.rs subtracts n.
MainAddr_move_right(a, b, n) ==
    LET i == MainAddr_as_index(a, b)
        s == USub(i.v, n)
    IN  IF i.k # "Ok" THEN AddrRes(i.k, a)
        ELSE IF s.k # "Ok" THEN AddrRes(s.k, a)
        ELSE AddrRes("Ok", Index(s.v))

\* -------------------------------------------------------- main.rs: Dot
MainDot_new == Dot(BufferStart, BufferEnd)

MainDot_left_right(d, b, left, right) ==
    LET l == MainAddr_as_index(left, b)
        r == MainAddr_as_index(right, b)
        d1 == [d EXCEPT !.from = Index(l.v)]
    IN  IF l.k # "Ok" THEN DotRes(l.k, d)
        ELSE IF r.k # "Ok" THEN DotRes(r.k, d1)
        ELSE DotRes("Ok", [d1 EXCEPT !.to = Index(r.v)])

MainDot_anchor_left(d, b, anchor, to) ==
    LET a == MainAddr_as_index(anchor, b)
        w == MainAddr_as_index(to, b)
        s == UAdd(a.v, w.v)
        d1 == [d EXCEPT !.from = Index(a.v)]
    IN  IF a.k # "Ok" THEN DotRes(a.k, d)
        ELSE IF w.k # "Ok" THEN DotRes(w.k, d1)
        ELSE IF s.k # "Ok" THEN DotRes(s.k, d1)
        ELSE DotRes("Ok", [d1 EXCEPT !.to = Index(s.v)])

MainDot_anchor_right(d, b, from, anchor) ==
    LET a == MainAddr_as_index(anchor, b)
        w == MainAddr_as_index(from, b)
        s == USub(a.v, w.v)
    IN  IF a.k # "Ok" THEN DotRes(a.k, d)
        ELSE IF w.k # "Ok" THEN DotRes(w.k, d)
        ELSE IF s.k # "Ok" THEN DotRes(s.k, d)
        ELSE DotRes("Ok", Dot(Index(s.v), Index(a.v)))

MainDot_move_left(d, b, n) ==
    LET f == MainAddr_move_left(d.from, b, n)
        d1 == [d EXCEPT !.from = f.a]
        t == MainAddr_move_left(d.to, b, n)
    IN  IF f.k # "Ok" THEN DotRes(f.k, d)
        ELSE IF t.k # "Ok" THEN DotRes(t.k, d1)
        ELSE DotRes("Ok", [d1 EXCEPT !.to = t.a])

MainDot_move_right(d, b, n) ==
    LET f == MainAddr_move_right(d.from, b, n)
        d1 == [d EXCEPT !.from = f.a]
        t == MainAddr_move_right(d.to, b, n)
    IN  IF f.k # "Ok" THEN DotRes(f.k, d)
        ELSE IF t.k # "Ok" THEN DotRes(t.k, d1)
        ELSE DotRes("Ok", [d1 EXCEPT !.to = t.a])

MainDot_extend_left(d, b, n) ==
    LET t == MainAddr_move_left(d.to, b, n)
    IN  IF t.k # "Ok" THEN DotRes(t.k, d)
        ELSE DotRes("Ok", [d EXCEPT !.to = t.a])

MainDot_extend_right(d, b, n) ==
    LET f == MainAddr_move_right(d.from, b, n)
    IN  IF f.k # "Ok" THEN DotRes(f.k, d)
        ELSE DotRes("Ok", [d EXCEPT !.from = f.a])

MainDot_trim_left(d, b, n) ==
    LET t == MainAddr_move_right(d.to, b, n)
        d1 == [d EXCEPT !.to = t.a]
        ti == MainAddr_as_index(d1.to, b)
        fi == MainAddr_as_index(d1.from, b)
    IN  IF t.k # "Ok" THEN DotRes(t.k, d)
        ELSE IF ti.k # "Ok" THEN DotRes(ti.k, d1)
        ELSE IF fi.k # "Ok" THEN DotRes(fi.k, d1)
        ELSE DotRes("Ok", SwapIf(ti.v < fi.v, d1))

MainDot_trim_right(d, b, n) ==
    LET f == MainAddr_move_left(d.from, b, n)
        d1 == [d EXCEPT !.from = f.a]
        fi == MainAddr_as_index(d1.from, b)
        ti == MainAddr_as_index(d1.to, b)
    IN  IF f.k # "Ok" THEN DotRes(f.k, d)
        ELSE IF fi.k # "Ok" THEN DotRes(fi.k, d1)
        ELSE IF ti.k # "Ok" THEN DotRes(ti.k, d1)
        ELSE DotRes("Ok", SwapIf(fi.v > ti.v, d1))

MainDot_get(d, b) ==
    LET from == MainAddr_as_index(d.from, b)
        to == MainAddr_as_index(d.to, b)
    IN  IF from.k # "Ok" THEN BufRes(from.k, b, <<>>)
        ELSE IF to.k # "Ok" THEN BufRes(to.k, b, <<>>)
        ELSE IF ~RangeOk(b, from.v, to.v) THEN BufRes("Panic", b, <<>>)
        ELSE BufRes("Ok", b, Slice(b, from.v, to.v))

MainDot_set(d, b, s) ==
    LET from == MainAddr_as_index(d.from, b)
        to == MainAddr_as_index(d.to, b)
    IN  IF from.k # "Ok" THEN BufRes(from.k, b, <<>>)
        ELSE IF to.k # "Ok" THEN BufRes(to.k, b, <<>>)
        ELSE IF ~RangeOk(b, from.v, to.v) THEN BufRes("Panic", b, <<>>)
        ELSE BufRes("Ok", Splice(b, from.v, to.v, s), <<>>)

\* ------------------------------------------------------------ the calls
NoDot == Dot(BufferStart, BufferStart)

\* The threads sharing one Buffer (a clone of the Arc each), and a thread
\* that is in no call after calls calls.
Threads == {"t1", "t2"}

Idle(calls) ==
    [at |-> "idle", op |-> "none", dot |-> NoDot, s |-> <<>>, n |-> 0,
     from |-> 0, to |-> 0, seen |-> <<>>, seen2 |-> <<>>, calls |-> calls]

NoThreads == [t \in Threads |-> Idle(0)]

\* The endpoints of the dots the threads pass: one variant that resolves
\* without the lock and one that locks the body to resolve.
ThreadInputs == {a \in DotInputs : a.tag \in {"Index", "BufferEnd"}}
NoTrip == [some |-> FALSE, dot |-> NoDot]

\* An index is followed while it is at most MaxPos, or at most MaxWrap below
\* the modulus (a wrapped one).
TrackedAddr(a) ==
    a.tag = "Index" => (a.x <= MaxPos \/ a.x >= UsizeModulus - MaxWrap)

Tracked(d) == TrackedAddr(d.from) /\ TrackedAddr(d.to)

\* The calls whose dot before the call is kept in last.pre.
Recorded ==
    {"move_left", "move_right", "extend_left", "extend_right", "trim_left",
     "trim_right", "set"}

StatusAfter(k) ==
    IF k = "Panic" THEN "panicked"
    ELSE IF k = "Deadlock" THEN "deadlocked"
    ELSE "running"

\* What last keeps of a call: its name, its arguments (a count n, a text s,
\* an address a, a second address a2), its result kind k with the text out or
\* the value v (and column col), and the dot and body before it.
Last(op, n, s, a, k, out, v) ==
    [op |-> op, n |-> n, s |-> s, a |-> a, k |-> k, out |-> out, v |-> v,
     col |-> 0, a2 |-> BufferStart, pre |-> IF op \in Recorded THEN dot ELSE NoDot, preBody |-> body]

\* One call op(n or s) that ends with result kind k, text out, dot d and
\* body b, and leaves the test at statement p.
CallWith(op, n, s, a, a2, k, out, d, b, p) ==
    /\ status = "running"
    /\ dot' = d
    /\ body' = b
    /\ last' = [Last(op, n, s, a, k, out, 0) EXCEPT !.a2 = a2]
    /\ roundtrip' = IF /\ op = "move_right" /\ k = "Ok"
                       /\ last.op = "move_left" /\ last.k = "Ok" /\ last.n = n
                    THEN [some |-> TRUE, dot |-> last.pre]
                    ELSE NoTrip
    /\ pc' = p
    /\ UNCHANGED <<draft, build, width, lock, thread>>

CallAt(op, n, s, k, out, d, b, p) ==
    CallWith(op, n, s, BufferStart, BufferStart, k, out, d, b, p)

Call(op, n, s, k, out, d, b) ==
    /\ Tracked(d)
    /\ Len(b) <= MaxLen
    /\ CallAt(op, n, s, k, out, d, b, pc)
    /\ status' = StatusAfter(k)
    /\ UNCHANGED other

DotCall(op, n, r) == Call(op, n, <<>>, r.k, <<>>, r.dot, body)

\* A constructor call op(a, a2) on the dot that ends with result r.
AddrCall(op, a, a2, r) ==
    /\ Tracked(r.dot)
    /\ CallWith(op, 0, <<>>, a, a2, r.k, <<>>, r.dot, body, pc)
    /\ status' = StatusAfter(r.k)
    /\ UNCHANGED other

\* A resolution of address a that ends with result r: nothing is stored.
Query(op, a, r) ==
    /\ status = "running"
    /\ status' = StatusAfter(r.k)
    /\ last' = Last(op, 0, <<>>, a, r.k, <<>>, r.v)
    /\ roundtrip' = NoTrip
    /\ UNCHANGED <<draft, build, body, dot, pc, width, lock, thread, other>>

\* A resolution of address a to coordinates, with result r: last keeps the
\* line in v and the column in col.
QueryCoords(op, a, r) ==
    /\ status = "running"
    /\ status' = StatusAfter(r.k)
    /\ last' = [Last(op, 0, <<>>, a, r.k, <<>>, r.v) EXCEPT !.col = r.col]
    /\ roundtrip' = NoTrip
    /\ UNCHANGED <<draft, build, body, dot, pc, width, lock, thread, other>>

\* text.rs
New ==
    /\ draft = "text"
    /\ Call("new", 0, <<>>, "Ok", <<>>, Dot_new, body)

LeftRight ==
    /\ draft = "text"
    /\ dot = Dot_new
    /\ \E l, r \in DotInputs : AddrCall("left_right", l, r, Dot_left_right(dot, body, l, r))

AnchorLeft ==
    /\ draft = "text"
    /\ dot = Dot_new
    /\ \E a, w \in DotInputs : AddrCall("anchor_left", a, w, Dot_anchor_left(dot, body, a, w))

AnchorRight ==
    /\ draft = "text"
    /\ dot = Dot_new
    /\ \E w, a \in DotInputs : AddrCall("anchor_right", w, a, Dot_anchor_right(dot, body, w, a))

MoveLeft ==
    /\ draft = "text"
    /\ \E n \in 0..MaxIdx : DotCall("move_left", n, Dot_move_left(dot, body, n))

MoveRight ==
    /\ draft = "text"
    /\ \E n \in 0..MaxIdx : DotCall("move_right", n, Dot_move_right(dot, body, n))

ExtendLeft ==
    /\ draft = "text"
    /\ \E n \in 0..MaxIdx : DotCall("extend_left", n, Dot_extend_left(dot, body, n))

ExtendRight ==
    /\ draft = "text"
    /\ \E n \in 0..MaxIdx : DotCall("extend_right", n, Dot_extend_right(dot, body, n))

TrimLeft ==
    /\ draft = "text"
    /\ \E n \in 0..MaxIdx : DotCall("trim_left", n, Dot_trim_left(dot, body, n))

TrimRight ==
    /\ draft = "text"
    /\ \E n \in 0..MaxIdx : DotCall("trim_right", n, Dot_trim_right(dot, body, n))

AsIndex ==
    /\ draft = "text"
    /\ \E a \in AddrInputs : Query("as_index", a, Addr_as_index(a, body, FALSE))

AsCoordinates ==
    /\ draft = "text"
    /\ \E a \in AddrInputs :
            QueryCoords("as_coordinates", a, Addr_as_coordinates(a, body))

Get ==
    /\ draft = "text"
    /\ LET r == Buffer_get(dot, body)
       IN  Call("get", 0, <<>>, r.k, r.out, dot, body)

\* A set that also moves the upper endpoint of the other dot to the end of
\* the new body.
Set_Reanchor ==
    /\ draft = "text"
    /\ \E s \in Replacements :
          LET r == Buffer_set(dot, body, s)
          IN  /\ Tracked(dot)
              /\ Len(r.body) <= MaxLen
              /\ CallAt("set", 0, s, r.k, <<>>, dot, r.body, pc)
              /\ status' = StatusAfter(r.k)
              /\ other' = [other EXCEPT !.to = Index(Len(r.body))]

Set ==
    /\ draft = "text"
    /\ \E s \in Replacements :
          LET r == Buffer_set(dot, body, s)
          IN  Call("set", 0, s, r.k, <<>>, dot, r.body)

\* main.rs: the Buffer holds the body and a Vec with its one dot; each call
\* of the Buffer applies the Dot's call to it and drops the Result, which
\* last.k keeps.
MainLeftRight ==
    /\ draft = "main"
    /\ dot = MainDot_new
    /\ \E l, r \in DotInputs :
          AddrCall("left_right", l, r, MainDot_left_right(dot, body, l, r))

MainAnchorLeft ==
    /\ draft = "main"
    /\ dot = MainDot_new
    /\ \E a, w \in DotInputs :
          AddrCall("anchor_left", a, w, MainDot_anchor_left(dot, body, a, w))

MainAnchorRight ==
    /\ draft = "main"
    /\ dot = MainDot_new
    /\ \E w, a \in DotInputs :
          AddrCall("anchor_right", w, a, MainDot_anchor_right(dot, body, w, a))

MainMoveLeft ==
    /\ draft = "main"
    /\ \E n \in 0..MaxIdx : DotCall("move_left", n, MainDot_move_left(dot, body, n))

MainMoveRight ==
    /\ draft = "main"
    /\ \E n \in 0..MaxIdx : DotCall("move_right", n, MainDot_move_right(dot, body, n))

MainExtendLeft ==
    /\ draft = "main"
    /\ \E n \in 0..MaxIdx : DotCall("extend_left", n, MainDot_extend_left(dot, body, n))

MainExtendRight ==
    /\ draft = "main"
    /\ \E n \in 0..MaxIdx : DotCall("extend_right", n, MainDot_extend_right(dot, body, n))

MainTrimLeft ==
    /\ draft = "main"
    /\ \E n \in 0..MaxIdx : DotCall("trim_left", n, MainDot_trim_left(dot, body, n))

MainTrimRight ==
    /\ draft = "main"
    /\ \E n \in 0..MaxIdx : DotCall("trim_right", n, MainDot_trim_right(dot, body, n))

MainAsIndex ==
    /\ draft = "main"
    /\ \E a \in AddrInputs : Query("as_index", a, MainAddr_as_index(a, body))

MainAsCoordinates ==
    /\ draft = "main"
    /\ \E a \in AddrInputs :
            QueryCoords("as_coordinates", a, MainAddr_as_coordinates(a, body))

MainGet ==
    /\ draft = "main"
    /\ LET r == MainDot_get(dot, body)
       IN  Call("get", 0, <<>>, r.k, r.out, dot, body)

MainSet ==
    /\ draft = "main"
    /\ \E s \in Replacements :
          LET r == MainDot_set(dot, body, s)
          IN  Call("set", 0, s, r.k, <<>>, dot, r.body)

Init ==
    /\ draft \in {"text", "main"}
    /\ build \in {"debug", "release"}
    /\ status = "running"
    /\ body \in Bodies
    /\ dot = Dot_new
    /\ last = [op |-> "new", n |-> 0, s |-> <<>>, a |-> BufferStart, k |-> "Ok",
               out |-> <<>>, v |-> 0, col |-> 0, a2 |-> BufferStart,
               pre |-> NoDot, preBody |-> body]
    /\ roundtrip = NoTrip
    /\ pc = "none"
    /\ width = 0
    /\ lock = "free"
    /\ thread = NoThreads
    /\ other = Dot_new

Next ==
    \/ New
    \/ LeftRight
    \/ AnchorLeft
    \/ AnchorRight
    \/ MoveLeft
    \/ MoveRight
    \/ ExtendLeft
    \/ ExtendRight
    \/ TrimLeft
    \/ TrimRight
    \/ AsIndex
    \/ AsCoordinates
    \/ Get
    \/ Set
    \/ MainLeftRight
    \/ MainAnchorLeft
    \/ MainAnchorRight
    \/ MainMoveLeft
    \/ MainMoveRight
    \/ MainExtendLeft
    \/ MainExtendRight
    \/ MainTrimLeft
    \/ MainTrimRight
    \/ MainAsIndex
    \/ MainAsCoordinates
    \/ MainGet
    \/ MainSet

Spec == Init /\ [][Next]_vars

\* The calls that store into the dot, alone: the constructors and the moves
\* of both drafts.
DotNext ==
    \/ New
    \/ LeftRight
    \/ AnchorLeft
    \/ AnchorRight
    \/ MoveLeft
    \/ MoveRight
    \/ ExtendLeft
    \/ ExtendRight
    \/ TrimLeft
    \/ TrimRight
    \/ MainLeftRight
    \/ MainAnchorLeft
    \/ MainAnchorRight
    \/ MainMoveLeft
    \/ MainMoveRight
    \/ MainExtendLeft
    \/ MainExtendRight
    \/ MainTrimLeft
    \/ MainTrimRight

DotSpec == Init /\ [][DotNext]_vars

\* The two resolution functions, alone, applied to every address over every
\* body.
ResolveNext ==
    \/ AsIndex
    \/ AsCoordinates
    \/ MainAsIndex
    \/ MainAsCoordinates

ResolveSpec == Init /\ [][ResolveNext]_vars

\* ------------------------------------------------ two dots, one Buffer
\* The dots a second Dot::new(&buf) can have become through left_right.
OtherDots ==
    {Dot_new} \cup {Dot(Index(i), Index(j)) : i, j \in 0..MaxIdx}

SetInit ==
    /\ draft \in {"text", "main"}
    /\ build \in {"debug", "release"}
    /\ status = "running"
    /\ body \in Bodies
    /\ dot = Dot_new
    /\ last = [op |-> "new", n |-> 0, s |-> <<>>, a |-> BufferStart, k |-> "Ok",
               out |-> <<>>, v |-> 0, col |-> 0, a2 |-> BufferStart,
               pre |-> NoDot, preBody |-> body]
    /\ roundtrip = NoTrip
    /\ pc = "none"
    /\ width = 0
    /\ lock = "free"
    /\ thread = NoThreads
    /\ other \in OtherDots

SetNext ==
    \/ LeftRight
    \/ Set
    \/ MainLeftRight
    \/ MainSet

SetSpec == SetInit /\ [][SetNext]_vars

\* tests::test_dot_move_left and tests::test_dot_move_right, statement by
\* statement, on any body and with any width where the tests anchor the
\* dot they then move (7 and 1 in the source).  unwrap() and assert!
\* panic; the text the closing assert_eq! compares is kept in last.out.
Unwrap(k) == IF k = "Ok" THEN "Ok" ELSE "Panic"
AssertIsErr(k) == IF k = "Err" THEN "Err" ELSE "Panic"

\* A statement of a test: the call's result r, what the test makes of its
\* kind (status after), and the next statement.
TestCall(op, n, r, check, p) ==
    /\ CallAt(op, n, <<>>, r.k, <<>>, r.dot, body, p)
    /\ status' = StatusAfter(check)
    /\ UNCHANGED other

TestMoveLeft_anchor_left ==
    /\ pc = "ml0"
    /\ LET r == Dot_anchor_left(dot, body, BufferStart, Index(2))
       IN  TestCall("anchor_left", 0, r, Unwrap(r.k), "ml1")

TestMoveLeft_out_of_buffer ==
    /\ pc = "ml1"
    /\ LET r == Dot_move_left(dot, body, 1)
       IN  TestCall("move_left", 1, r, AssertIsErr(r.k), "ml2")

TestMoveLeft_anchor_right ==
    /\ pc = "ml2"
    /\ LET r == Dot_anchor_right(dot, body, Index(width), BufferEnd)
       IN  TestCall("anchor_right", 0, r, Unwrap(r.k), "ml3")

TestMoveLeft_regular ==
    /\ pc = "ml3"
    /\ LET r == Dot_move_left(dot, body, 1)
       IN  TestCall("move_left", 1, r, Unwrap(r.k), "ml4")

TestMoveRight_anchor_right ==
    /\ pc = "mr0"
    /\ LET r == Dot_anchor_right(dot, body, Index(width), BufferEnd)
       IN  TestCall("anchor_right", 0, r, Unwrap(r.k), "mr1")

TestMoveRight_out_of_buffer ==
    /\ pc = "mr1"
    /\ \E n \in 1..MaxIdx :
          LET r == Dot_move_right(dot, body, n)
          IN  TestCall("move_right", n, r, AssertIsErr(r.k), "mr2")

TestMoveRight_anchor_left ==
    /\ pc = "mr2"
    /\ LET r == Dot_anchor_left(dot, body, BufferStart, Index(5))
       IN  TestCall("anchor_left", 0, r, Unwrap(r.k), "mr3")

TestMoveRight_regular ==
    /\ pc = "mr3"
    /\ LET r == Dot_move_right(dot, body, 2)
       IN  TestCall("move_right", 2, r, Unwrap(r.k), "mr4")

\* buf.get(&dot).unwrap(), the left side of the closing assert_eq!.
TestGet ==
    /\ pc \in {"ml4", "mr4"}
    /\ LET r == Buffer_get(dot, body)
       IN  /\ CallAt("get", 0, <<>>, r.k, r.out, dot, body, "end")
           /\ status' = StatusAfter(Unwrap(r.k))
           /\ UNCHANGED other

TestInit ==
    /\ draft = "text"
    /\ build \in {"debug", "release"}
    /\ status = "running"
    /\ body \in TestBodies
    /\ dot = Dot_new
    /\ last = [op |-> "new", n |-> 0, s |-> <<>>, a |-> BufferStart, k |-> "Ok",
               out |-> <<>>, v |-> 0, col |-> 0, a2 |-> BufferStart,
               pre |-> NoDot, preBody |-> body]
    /\ roundtrip = NoTrip
    /\ pc \in {"ml0", "mr0"}
    /\ width \in 1..MaxIdx
    /\ lock = "free"
    /\ thread = NoThreads
    /\ other = Dot_new

TestNext ==
    \/ TestMoveLeft_anchor_left
    \/ TestMoveLeft_out_of_buffer
    \/ TestMoveLeft_anchor_right
    \/ TestMoveLeft_regular
    \/ TestMoveRight_anchor_right
    \/ TestMoveRight_out_of_buffer
    \/ TestMoveRight_anchor_left
    \/ TestMoveRight_regular
    \/ TestGet

TestSpec == TestInit /\ [][TestNext]_vars

\* --------------------------------------- text.rs: two threads, one Buffer
\* Buffer::get and Buffer::set, statement by statement.  A thread is at
\* "from" (before `dot.from.as_index`), "to" (before `dot.to.as_index`),
\* "lock" (before `dot.text.lock()`), "access" (the lock taken, before the
\* slice or the remove and insert), "idle" or "panicked".
Step(t, rec) ==
    /\ status = "running"
    /\ thread' = [thread EXCEPT ![t] = rec]
    /\ UNCHANGED <<draft, build, status, dot, last, roundtrip, pc, width, other>>

\* `text.lock().unwrap()` by thread t: it waits while another thread holds
\* the lock, and panics when the lock is poisoned.
CanLock(t) == lock \in {"free", "poisoned"}

\* One `as_index(&self.text)` of address a by thread t, with result r.  A
\* variant that locks takes the lock, reads the body and drops the lock
\* within the call; a panic with the lock taken poisons it.
Resolved(t, a) ==
    IF Addr_locks(a) /\ lock = "poisoned" THEN Panic
    ELSE Addr_as_index(a, body, FALSE)

LockAfterResolve(a, r) ==
    IF Addr_locks(a) /\ r.k = "Panic" THEN "poisoned" ELSE lock

\* A thread calls get(dot) or set(dot, s).
BeginGetSet ==
    \E t \in Threads, op \in {"get", "set"}, from, to \in ThreadInputs,
       s \in Replacements :
        /\ thread[t].at = "idle"
        /\ thread[t].calls < MaxCalls
        /\ op = "get" => s = <<>>
        /\ Step(t, [Idle(thread[t].calls + 1) EXCEPT
                        !.at = "from", !.op = op, !.dot = Dot(from, to),
                        !.s = s])
        /\ UNCHANGED <<body, lock>>

\* `let from = dot.from.as_index(&self.text)?;`
ResolveFrom ==
    \E t \in Threads :
        /\ thread[t].at = "from"
        /\ Addr_locks(thread[t].dot.from) => CanLock(t)
        /\ LET a == thread[t].dot.from
               r == Resolved(t, a)
           IN  /\ Step(t, CASE r.k = "Ok" ->
                                [thread[t] EXCEPT !.at = "to", !.from = r.v,
                                                  !.seen = body]
                            [] r.k = "Err" -> Idle(thread[t].calls)
                            [] OTHER ->
                                [Idle(thread[t].calls) EXCEPT !.at = "panicked"])
               /\ lock' = LockAfterResolve(a, r)
        /\ UNCHANGED body

\* `let to = dot.to.as_index(&self.text)?;`
ResolveTo ==
    \E t \in Threads :
        /\ thread[t].at = "to"
        /\ Addr_locks(thread[t].dot.to) => CanLock(t)
        /\ LET a == thread[t].dot.to
               r == Resolved(t, a)
           IN  /\ Step(t, CASE r.k = "Ok" ->
                                [thread[t] EXCEPT !.at = "lock", !.to = r.v]
                            [] r.k = "Err" -> Idle(thread[t].calls)
                            [] OTHER ->
                                [Idle(thread[t].calls) EXCEPT !.at = "panicked"])
               /\ lock' = LockAfterResolve(a, r)
        /\ UNCHANGED body

\* `dot.text.lock().unwrap()`
LockBody ==
    \E t \in Threads :
        /\ thread[t].at = "lock"
        /\ CanLock(t)
        /\ IF lock = "poisoned"
           THEN /\ Step(t, [Idle(thread[t].calls) EXCEPT !.at = "panicked"])
                /\ UNCHANGED lock
           ELSE /\ Step(t, [thread[t] EXCEPT !.at = "access"])
                /\ lock' = t
        /\ UNCHANGED body

\* `.slice(from..to)` of get, `text.remove(from..to); text.insert(from, ..)`
\* of set, and the drop of the guard at the return (or at the panic, which
\* poisons the lock).
AccessBody ==
    \E t \in Threads :
        /\ thread[t].at = "access"
        /\ lock = t
        /\ LET c == thread[t]
           IN  IF RangeOk(body, c.from, c.to)
               THEN /\ Step(t, Idle(c.calls))
                    /\ lock' = "free"
                    /\ body' = IF c.op = "set"
                               THEN Splice(body, c.from, c.to, c.s)
                               ELSE body
               ELSE /\ Step(t, [Idle(c.calls) EXCEPT !.at = "panicked"])
                    /\ lock' = "poisoned"
                    /\ UNCHANGED body

ConcInit ==
    /\ draft = "text"
    /\ build \in {"debug", "release"}
    /\ status = "running"
    /\ body \in Bodies
    /\ dot = Dot_new
    /\ last = [op |-> "new", n |-> 0, s |-> <<>>, a |-> BufferStart, k |-> "Ok",
               out |-> <<>>, v |-> 0, col |-> 0, a2 |-> BufferStart,
               pre |-> NoDot, preBody |-> <<>>]
    /\ roundtrip = NoTrip
    /\ pc = "none"
    /\ width = 0
    /\ lock = "free"
    /\ thread = NoThreads
    /\ other = Dot_new

ConcNext ==
    \/ BeginGetSet
    \/ ResolveFrom
    \/ ResolveTo
    \/ LockBody
    \/ AccessBody

ConcSpec == ConcInit /\ [][ConcNext]_vars

\* ------------------------- text.rs: a move_right against another's set
\* Dot::move_right, statement by statement, in one thread, and Buffer::set
\* in the other (the threads are alike: which one moves does not matter).
\* The mover is at "mr_from" (before `self.from.move_right`) or "mr_to"
\* (before `self.to.move_right`); it keeps in seen and seen2 the bodies its
\* two statements ran against.
Mover == "t1"
Setter == "t2"

\* One `Addr::move_right(self.text, n)` by thread t with result r: the call
\* locks the body on entry and holds the lock to its return; a panic under
\* the lock poisons it, a second lock by the same thread is never granted.
MovedRight(a, n) ==
    IF lock = "poisoned" THEN AddrRes("Panic", a) ELSE Addr_move_right(a, body, n)

LockAfterMove(t, r) ==
    CASE r.k = "Panic" -> "poisoned"
      [] r.k = "Deadlock" -> t
      [] OTHER -> lock

AfterMove(c, r, next) ==
    CASE r.k = "Ok" -> next
      [] r.k = "Err" -> Idle(c.calls)
      [] r.k = "Deadlock" -> [Idle(c.calls) EXCEPT !.at = "deadlocked"]
      [] OTHER -> [Idle(c.calls) EXCEPT !.at = "panicked"]

\* The mover calls dot.move_right(n).
BeginMoveRight ==
    \E from, to \in ThreadInputs, n \in 0..MaxIdx :
        /\ thread[Mover].at = "idle"
        /\ thread[Mover].calls < MaxCalls
        /\ Step(Mover, [Idle(thread[Mover].calls + 1) EXCEPT
                            !.at = "mr_from", !.op = "move_right",
                            !.dot = Dot(from, to), !.n = n])
        /\ UNCHANGED <<body, lock>>

\* The setter calls set(dot, s).
BeginSet ==
    \E from, to \in ThreadInputs, s \in Replacements :
        /\ thread[Setter].at = "idle"
        /\ thread[Setter].calls < MaxCalls
        /\ Step(Setter, [Idle(thread[Setter].calls + 1) EXCEPT
                            !.at = "from", !.op = "set", !.dot = Dot(from, to),
                            !.s = s])
        /\ UNCHANGED <<body, lock>>

\* `self.from.move_right(self.text, n)?;`
MoveRightFrom ==
    \E t \in Threads :
        /\ thread[t].at = "mr_from"
        /\ CanLock(t)
        /\ LET c == thread[t]
               r == MovedRight(c.dot.from, c.n)
           IN  /\ Step(t, AfterMove(c, r, [c EXCEPT !.at = "mr_to",
                                                    !.dot.from = r.a,
                                                    !.seen = body]))
               /\ lock' = LockAfterMove(t, r)
        /\ UNCHANGED body

\* `self.to.move_right(self.text, n)?; Ok(())`
MoveRightTo ==
    \E t \in Threads :
        /\ thread[t].at = "mr_to"
        /\ CanLock(t)
        /\ LET c == thread[t]
               r == MovedRight(c.dot.to, c.n)
           IN  /\ Step(t, AfterMove(c, r, [c EXCEPT !.at = "idle",
                                                    !.dot.to = r.a,
                                                    !.seen2 = body]))
               /\ lock' = LockAfterMove(t, r)
        /\ UNCHANGED body

MoveNext ==
    \/ BeginMoveRight
    \/ MoveRightFrom
    \/ MoveRightTo
    \/ BeginSet
    \/ ResolveFrom
    \/ ResolveTo
    \/ LockBody
    \/ AccessBody

MoveSpec == ConcInit /\ [][MoveNext]_vars

\* ------------------------------------------------------------ the claims
\* The index address a resolves to against body b, as the running draft
\* resolves it with no lock held.
Resolve(a, b) ==
    IF draft = "text" THEN Addr_as_index(a, b, FALSE) ELSE MainAddr_as_index(a, b)

Resolves(d, b) == Resolve(d.from, b).k = "Ok" /\ Resolve(d.to, b).k = "Ok"

ResolvedPair(d, b) == <<Resolve(d.from, b).v, Resolve(d.to, b).v>>

Larger(x, y) == IF x >= y THEN x ELSE y
Smaller(x, y) == IF x <= y THEN x ELSE y

DotOps ==
    {"left_right", "anchor_left", "anchor_right", "move_left", "move_right",
     "extend_left", "extend_right", "trim_left", "trim_right"}

\* C1: after any call of a Dot operation of text.rs, successful or failed,
\* the dot's resolved endpoints satisfy from <= to.
C1_FromAtMostTo ==
    (draft = "text" /\ status = "running" /\ last.op \in DotOps /\ Resolves(dot, body))
        => Resolve(dot.from, body).v <= Resolve(dot.to, body).v

\* C2: when the larger endpoint plus n exceeds the body length, move_right(n)
\* of text.rs returns an error and leaves the stored (from, to) as it was.
C2_MoveRightFailsWhole ==
    (/\ draft = "text"
     /\ status = "running"
     /\ last.op = "move_right"
     /\ Resolves(last.pre, last.preBody)
     /\ Larger(Resolve(last.pre.from, last.preBody).v,
               Resolve(last.pre.to, last.preBody).v) + last.n > Len(last.preBody))
        => (last.k = "Err" /\ dot = last.pre)

\* C3: when n exceeds the smaller endpoint's index, move_left(n) of text.rs
\* returns an error and leaves the stored (from, to) as it was, also for a dot
\* whose endpoints left_right stored out of order.
C3_MoveLeftFailsWhole ==
    (/\ draft = "text"
     /\ status = "running"
     /\ last.op = "move_left"
     /\ Resolves(last.pre, last.preBody)
     /\ last.n > Smaller(Resolve(last.pre.from, last.preBody).v,
                         Resolve(last.pre.to, last.preBody).v))
        => (last.k = "Err" /\ dot = last.pre)

\* C4: after a successful set(dot, s) on a dot denoting [from, to), the body
\* has [from, to) replaced by s and the dot's endpoints are from and
\* from + len(s), so that get(dot) returns s.
C4_SetRebindsDot ==
    (last.op = "set" /\ last.k = "Ok")
        => LET f == Resolve(last.pre.from, last.preBody).v
               t == Resolve(last.pre.to, last.preBody).v
               g == IF draft = "text" THEN Buffer_get(dot, body) ELSE MainDot_get(dot, body)
           IN  /\ body = Splice(last.preBody, f, t, last.s)
               /\ Resolves(dot, body)
               /\ ResolvedPair(dot, body) = <<f, f + Len(last.s)>>
               /\ g.k = "Ok" /\ g.out = last.s

\* C5: resolving BufferEnd succeeds on every body and yields its length;
\* resolving BufferStart yields 0.
C5_BufferEndIsLength ==
    /\ (last.op = "as_index" /\ last.a = BufferEnd)
            => (last.k = "Ok" /\ last.v = Len(body))
    /\ (last.op = "as_index" /\ last.a = BufferStart)
            => (last.k = "Ok" /\ last.v = 0)

\* C6: a thread that is about to slice or splice the body, in get or set,
\* uses indices resolved against the body as it is now: no other thread's
\* set took effect since the thread resolved its dot, and a range that was
\* inside the body at the resolution still is.
C6_ResolvedAgainstBodyAccessed ==
    \A t \in Threads :
        thread[t].at = "access" =>
            /\ thread[t].seen = body
            /\ RangeOk(thread[t].seen, thread[t].from, thread[t].to)
                    => RangeOk(body, thread[t].from, thread[t].to)

\* C7: after a successful move_left(n) directly followed by a successful
\* move_right(n), the dot's resolved (from, to) is the one before the two moves.
C7_MoveLeftThenRight ==
    roundtrip.some
        => /\ Resolves(dot, body)
           /\ Resolves(roundtrip.dot, body)
           /\ ResolvedPair(dot, body) = ResolvedPair(roundtrip.dot, body)

\* C7's case: a round trip of a real shift.
C7_Witness == roundtrip.some /\ last.n > 0 /\ draft = "text"

\* C8: in tests::test_dot_move_right, after anchor_right(Index(w), BufferEnd)
\* has set the dot's upper endpoint from BufferEnd, move_right(n) with n >= 1
\* returns an error (the test's assert!(ret.is_err())).
C8_MoveRightFromEndFails ==
    (pc = "mr2" /\ last.op = "move_right" /\ last.n >= 1) => last.k = "Err"

\* C9: in tests::test_dot_move_left on a body of length L >= w + 1,
\* anchor_right(Index(w), BufferEnd) then move_left(1) succeed and get returns
\* the w characters at [L - w - 1, L - 1).
C9_TestOver == pc = "end" \/ (pc \in {"ml3", "ml4"} /\ status # "running")

C9_AnchorRightMoveLeftGet ==
    (Len(body) >= width + 1 /\ C9_TestOver)
        => /\ pc = "end"
           /\ status = "running"
           /\ last.k = "Ok"
           /\ last.out = Slice(body, Len(body) - width - 1, Len(body) - 1)

\* C10: after a successful trim_left(n) or trim_right(n), in both drafts, the
\* dot's resolved endpoints satisfy from <= to; the stored endpoints are the
\* untouched one and the shifted one, swapped when the shift inverted them.
C10_TrimKeepsOrder ==
    (last.op \in {"trim_left", "trim_right"} /\ last.k = "Ok")
        => LET kept == IF last.op = "trim_left" THEN last.pre.from ELSE last.pre.to
               swapped == IF last.op = "trim_left" THEN dot.to = kept ELSE dot.from = kept
               shifted == IF swapped
                          THEN (IF last.op = "trim_left" THEN dot.from ELSE dot.to)
                          ELSE (IF last.op = "trim_left" THEN dot.to ELSE dot.from)
           IN  /\ Resolves(dot, body)
               /\ Resolve(dot.from, body).v <= Resolve(dot.to, body).v
               /\ kept \in {dot.from, dot.to}
               /\ shifted.tag = "Index"

\* C10's case: a trim whose shift inverted the endpoints, which it swapped.
C10_Witness ==
    /\ draft = "text"
    /\ last.op \in {"trim_left", "trim_right"} /\ last.k = "Ok"
    /\ last.n > 0
    /\ dot.from # dot.to
    /\ (IF last.op = "trim_left" THEN dot.to = last.pre.from ELSE dot.from = last.pre.to)

\* The coordinates address a resolves to against body b in the running draft.
ResolveCoords(a, b) ==
    IF draft = "text" THEN Addr_as_coordinates(a, b) ELSE MainAddr_as_coordinates(a, b)

\* (line, column) names a character of body b.
ValidCoords(b, line, column) ==
    /\ line < len_lines(b)
    /\ column < line_len_chars(b, line).v

\* C11: for every valid (line, col) of the body, as_index(Coordinates(line,
\* col)) succeeds with some index i, and as_coordinates(Index(i)) succeeds
\* with (line, col).
C11_CoordinatesRoundTrip ==
    \A line \in 0..MaxLine, column \in 0..MaxCol :
        ValidCoords(body, line, column) =>
            LET i == Resolve(Coordinates(line, column), body)
            IN  /\ i.k = "Ok"
                /\ (last.op = "as_coordinates" /\ last.a = Index(i.v))
                        => (last.k = "Ok" /\ last.v = line /\ last.col = column)

\* C11 witness: as_coordinates has just resolved the index of a valid
\* (line, col) on a line after the first.
C11_Witness ==
    /\ draft = "text"
    /\ last.op = "as_coordinates"
    /\ last.k = "Ok"
    /\ \E line \in 1..MaxLine, column \in 0..MaxCol :
            /\ ValidCoords(body, line, column)
            /\ last.a = Index(Resolve(Coordinates(line, column), body).v)

\* The text get returns for dot d over body b in the running draft.
GetOf(d, b) == IF draft = "text" THEN Buffer_get(d, b) ELSE MainDot_get(d, b)

\* The index address a denotes in body b once it resolves: the end of the
\* buffer is the body's length (C5), every other address is what as_index
\* returns.
Denotes(a, b) == IF a = BufferEnd THEN Len(b) ELSE Resolve(a, b).v

\* C12: after a successful anchor_left(a, Index(w)) with a at p and
\* p + w <= length, get returns the w characters at [p, p + w); after a
\* successful anchor_right(Index(w), a) with w <= p <= length, get returns
\* the w characters at [p - w, p).
C12_AnchoredWidth ==
    /\ (/\ last.op = "anchor_left" /\ last.k = "Ok" /\ last.a2.tag = "Index"
        /\ Denotes(last.a, body) + last.a2.x <= Len(body))
            => LET p == Denotes(last.a, body)
                   g == GetOf(dot, body)
               IN  g.k = "Ok" /\ g.out = Slice(body, p, p + last.a2.x)
    /\ (/\ last.op = "anchor_right" /\ last.k = "Ok" /\ last.a.tag = "Index"
        /\ last.a.x <= Denotes(last.a2, body)
        /\ Denotes(last.a2, body) <= Len(body))
            => LET p == Denotes(last.a2, body)
                   g == GetOf(dot, body)
               IN  g.k = "Ok" /\ g.out = Slice(body, p - last.a.x, p)

Resolutions == {"as_index", "as_coordinates"}
Constructors == {"new", "left_right", "anchor_left", "anchor_right"}

\* A value no index or column of a body reaches: the result of a wrapped
\* subtraction.
Wrapped(v) == v >= UsizeModulus \div 2

\* C13: every resolution and every constructor returns Ok or Err, with no
\* wrapped value; BufferEnd on the empty body, the coordinates of LineEnd of
\* an empty line, and anchor_right(width, anchor) with width above the anchor
\* return Err.
C13_NoUnderflow ==
    /\ last.op \in Resolutions \cup Constructors => last.k \in {"Ok", "Err"}
    /\ (last.op \in Resolutions /\ last.k = "Ok")
            => (~Wrapped(last.v) /\ ~Wrapped(last.col))
    /\ (last.op \in Constructors \ {"new"} /\ last.k = "Ok" /\ Resolves(dot, body))
            => (~Wrapped(Resolve(dot.from, body).v) /\ ~Wrapped(Resolve(dot.to, body).v))
    /\ (last.op \in Resolutions /\ last.a = BufferEnd /\ body = <<>>)
            => last.k = "Err"
    /\ (/\ last.op = "as_coordinates" /\ last.a.tag = "LineEnd"
        /\ last.a.x < len_lines(body) /\ line_len_chars(body, last.a.x).v = 0)
            => last.k = "Err"
    /\ (/\ last.op = "anchor_right"
        /\ Resolve(last.a, body).k = "Ok" /\ Resolve(last.a2, body).k = "Ok"
        /\ Resolve(last.a, body).v > Resolve(last.a2, body).v)
            => last.k = "Err"

\* C14: a step that is a set through the dot leaves the stored endpoints of
\* the other dot over the same Buffer as they were.
C14_SetLeavesOtherDots == [][last'.op = "set" => other' = other]_vars

\* C14 witness: a successful set has shortened the body below the upper
\* endpoint the other dot still stores.
C14_Witness ==
    /\ last.op = "set"
    /\ last.k = "Ok"
    /\ Len(body) < Len(last.preBody)
    /\ other.to.tag = "Index"
    /\ other.to.x > Len(body)

\* C15: in both drafts a successful move_left(n) lowers both resolved
\* endpoints by n and a successful move_right(n) raises both by n.
C15_MoveShiftsBothEndpoints ==
    /\ (last.op = "move_left" /\ last.k = "Ok")
            => /\ Resolves(last.pre, body) /\ Resolves(dot, body)
               /\ Resolve(dot.from, body).v + last.n = Resolve(last.pre.from, body).v
               /\ Resolve(dot.to, body).v + last.n = Resolve(last.pre.to, body).v
    /\ (last.op = "move_right" /\ last.k = "Ok")
            => /\ Resolves(last.pre, body) /\ Resolves(dot, body)
               /\ Resolve(dot.from, body).v = Resolve(last.pre.from, body).v + last.n
               /\ Resolve(dot.to, body).v = Resolve(last.pre.to, body).v + last.n

\* The pair <<x, y>> with the smaller first.
Ordered(x, y) == <<Smaller(x, y), Larger(x, y)>>

\* C16: on an ordered dot of text.rs a successful extend_left(n) lowers `to`
\* by n and a successful extend_right(n) raises `from` by n, and the stored
\* pair is swapped when the moved endpoint crosses the other one.
C16_ExtendSwaps ==
    (/\ draft = "text" /\ last.k = "Ok" /\ Resolves(last.pre, body)
     /\ Resolve(last.pre.from, body).v <= Resolve(last.pre.to, body).v)
        => LET f == Resolve(last.pre.from, body).v
               t == Resolve(last.pre.to, body).v
           IN  /\ last.op = "extend_left"
                    => /\ Resolves(dot, body)
                       /\ ResolvedPair(dot, body) = Ordered(f, t - last.n)
               /\ last.op = "extend_right"
                    => /\ Resolves(dot, body)
                       /\ ResolvedPair(dot, body) = Ordered(f + last.n, t)

\* C17: no call of move_left, move_right, extend_left, extend_right,
\* trim_left, trim_right, get or set of text.rs waits for the body lock while
\* its own thread holds it: every call returns.
C17_NoSelfDeadlock ==
    (/\ draft = "text"
     /\ last.op \in {"move_left", "move_right", "extend_left", "extend_right",
                     "trim_left", "trim_right", "get", "set"})
        => (last.k # "Deadlock" /\ status # "deadlocked")

Moves ==
    {"move_left", "move_right", "extend_left", "extend_right", "trim_left",
     "trim_right"}

\* C18: after a successful move_left, move_right, extend_left, extend_right,
\* trim_left or trim_right, each endpoint of the dot resolves to an index
\* within [0, length] of the body.
C18_MovedWithinBody ==
    (last.op \in Moves /\ last.k = "Ok")
        => \A e \in {dot.from, dot.to} :
                Resolve(e, body).k = "Ok" => Resolve(e, body).v <= Len(body)

\* C19: a move_right that has returned Ok moved both endpoints against one
\* body: the body its `to` statement ran against is the one its `from`
\* statement ran against, no set of the other thread having taken effect
\* between the two.
C19_MoveRightOneSnapshot ==
    \A t \in Threads :
        (thread[t].op = "move_right" /\ thread[t].at = "idle")
            => thread[t].seen2 = thread[t].seen

\* C20: for every address a that as_index resolves to i and as_coordinates
\* resolves, as_coordinates(a) is as_coordinates(Index(i)): the (line,
\* column) returned names the offset as_index returns.
C20_ResolutionsAgree ==
    (last.op = "as_coordinates" /\ last.k = "Ok" /\ Resolve(last.a, body).k = "Ok")
        => LET c == ResolveCoords(Index(Resolve(last.a, body).v), body)
           IN  c.k = "Ok" => (c.v = last.v /\ c.col = last.col)

====
